---- MODULE Spec2Model ----
(***************************************************************************)
(* A model of the bulk-edit modal form (BulkEditSubmissionsForm and its    *)
(* BulkEditRowForm) of jsapp/js/components/modalForms/                     *)
(* bulkEditSubmissionsForm.es6, of the FILTER_CONDITIONS registry of       *)
(* jsapp/js/projects/projectViews/constants.ts and of the demo view that   *)
(* holds a list of filter definitions.                                     *)
(*                                                                         *)
(* JavaScript values are records [t |-> <typeof tag>, v |-> <text>]:       *)
(* undefined, null, strings and numbers stay distinct, so that the         *)
(* `=== undefined`, `=== null`, `typeof x === 'string'` and truthiness     *)
(* tests of the code are computed, not assumed.                            *)
(***************************************************************************)
EXTENDS Integers, Sequences, FiniteSets, TLC

(***************************************************************************)
(* Bounds of the model.                                                    *)
(***************************************************************************)
\* number of selected submissions (rows of every question's selectedData)
NumSubmissions == 3
\* number of bulkPatchValues calls a run may issue
MaxCalls == 2
\* length of the filter list of the projects demo view
MaxFilters == 2

(***************************************************************************)
(* JavaScript values.                                                      *)
(***************************************************************************)
Undefined == [t |-> "undefined", v |-> ""]
Null == [t |-> "null", v |-> ""]
Str(s) == [t |-> "string", v |-> s]
Num(s) == [t |-> "number", v |-> s]

\* ToBoolean of a value, as `if (item.value)` computes it
Truthy(x) ==
  CASE x.t = "undefined" -> FALSE
    [] x.t = "null" -> FALSE
    [] x.t = "string" -> Len(x.v) > 0
    [] x.t = "number" -> x.v \notin {"0", "NaN"}

(***************************************************************************)
(* Module constants of bulkEditSubmissionsForm.es6.                        *)
(***************************************************************************)
EMPTY_VALUE_LABEL == "n/d"
EMPTY_VALUE == Null
MULTIPLE_VALUES_LABEL == "Multiple responses"

(***************************************************************************)
(* Plain objects used as maps (the overrides dictionary).                  *)
(***************************************************************************)
EmptyObject == [k \in {} |-> Undefined]
ObjectGet(o, k) == IF k \in DOMAIN o THEN o[k] ELSE Undefined
ObjectSet(o, k, x) == [j \in (DOMAIN o) \cup {k} |-> IF j = k THEN x ELSE o[j]]
ObjectDelete(o, k) == [j \in (DOMAIN o) \ {k} |-> o[j]]

(***************************************************************************)
(* Props of the form: the asset, its survey, the selected submissions.     *)
(***************************************************************************)
AssetUid == "aXyZ"
Survey ==
  << [name |-> "q1", label |-> "Age", path |-> "q1"],
     [name |-> "q2", label |-> "City", path |-> "group/q2"] >>
QuestionNames == {Survey[i].name : i \in 1..Len(Survey)}
QuestionPaths == {Survey[i].path : i \in 1..Len(Survey)}
\* getSurveyFlatPaths: question name -> path of its value in a submission
getSurveyFlatPaths ==
  [n \in QuestionNames |-> (CHOOSE i \in 1..Len(Survey) : Survey[i].name = n)]
flatPath(n) == Survey[getSurveyFlatPaths[n]].path
\* the ids of the selected submissions, as the strings the table keeps
selectedSubmissions == [i \in 1..NumSubmissions |-> ToString(i)]
totalSubmissions == NumSubmissions + 1
\* Array.prototype.includes
Includes(arr, x) == \E i \in 1..Len(arr) : arr[i] = x

\* the values a response can have in the loaded data
DataValues == {Undefined, Str("a"), Str(EMPTY_VALUE_LABEL)}
\* a submission the table has loaded that is not selected
UnselectedSubmission == [id |-> 0, values |-> [p \in QuestionPaths |-> Str("z")]]
\* every data prop: the unselected submission, then the selected ones
AllData ==
  { <<UnselectedSubmission>> \o [i \in 1..NumSubmissions |-> [id |-> i, values |-> f[i]]] :
      f \in [1..NumSubmissions -> [QuestionPaths -> DataValues]] }
\* the data prop of the runs that exercise the handlers
SampleData ==
  <<UnselectedSubmission>> \o
  [i \in 1..NumSubmissions |->
     [id |-> i,
      values |-> [p \in QuestionPaths |->
                    IF p = "q1" THEN (IF i = 1 THEN Undefined ELSE Str("a"))
                    ELSE Str("a")]]]

\* what the text box can report, and what a caller can hand to onChange
TextInputs == {"", "a"}
ChangeValues == {Undefined, Null, Num("7")} \cup {Str(s) : s \in TextInputs}
FilterInputs == {"", "a"}

VARIABLES
  pc,                        \* lifecycle: "constructed", "mounted", "unmounted"
  data,                      \* props.data
  isPending,                 \* state.isPending
  overrides,                 \* state.overrides
  selectedQuestion,          \* state.selectedQuestion: <<>> (null) or <<question>>
  selectedQuestionOverride,  \* state.selectedQuestionOverride
  filterByName,              \* state.filterByName
  filterByValue,             \* state.filterByValue
  unlisteners,               \* this.unlisteners: the subscriptions to undo
  listeners,                 \* handlers subscribed to bulkPatchValues.completed/.failed
  callCount,                 \* bulkPatchValues calls issued so far
  lastCall,                  \* arguments of the latest bulkPatchValues call
  inFlight,                  \* bulkPatchValues requests awaiting their response
  modalCloseCalls,           \* calls of props.onModalClose
  modalTitle,                \* latest argument of props.onSetModalTitle
  view,                      \* what the latest render produced
  filters,                   \* ProjectsViewTempDemo state.filters
  fields                     \* ProjectsViewTempDemo state.fields

formState ==
  <<isPending, overrides, selectedQuestion, selectedQuestionOverride,
    filterByName, filterByValue>>
requestState == <<callCount, lastCall, inFlight>>
demoState == <<filters, fields>>
vars ==
  <<pc, data, isPending, overrides, selectedQuestion, selectedQuestionOverride,
    filterByName, filterByValue, unlisteners, listeners, callCount, lastCall,
    inFlight, modalCloseCalls, modalTitle, view, filters, fields>>

NoCall == [uid |-> "", submissions |-> <<>>, overrides |-> EmptyObject]
NoView == [kind |-> "none"]

(***************************************************************************)
(* BulkEditSubmissionsForm: the pure parts of rendering.                   *)
(***************************************************************************)
\* the rows of `d` whose id, as a string, is among the selected submissions
RECURSIVE SelectedRows(_, _)
SelectedRows(d, path) ==
  IF d = <<>> THEN <<>>
  ELSE (IF Includes(selectedSubmissions, ToString(Head(d).id))
          THEN << [sid |-> Head(d).id, value |-> Head(d).values[path]] >>
          ELSE <<>>)
       \o SelectedRows(Tail(d), path)

\* getDisplayData: every question of the survey with its selectedData
getDisplayData(d) ==
  [i \in 1..Len(Survey) |->
     [name |-> Survey[i].name,
      label |-> Survey[i].label,
      selectedData |-> SelectedRows(d, flatPath(Survey[i].name))]]

\* Set.prototype.add on a Set kept in insertion order
SetAdd(s, x) == IF Includes(s, x) THEN s ELSE Append(s, x)

\* the Set of displayed values that renderDataValues collects from the rows
RECURSIVE UniqueValues(_, _)
UniqueValues(rowData, acc) ==
  IF rowData = <<>> THEN acc
  ELSE UniqueValues(Tail(rowData),
                    IF Truthy(Head(rowData).value)
                      THEN SetAdd(acc, Head(rowData).value)
                      ELSE SetAdd(acc, Str(EMPTY_VALUE_LABEL)))

\* renderDataValues: what the Response cell of a question shows;
\* dot is the blue "updated response" marker
renderDataValues(ov, questionName, rowData) ==
  LET overrideValue == ObjectGet(ov, questionName)
      uniqueValuesArray == UniqueValues(rowData, <<>>)
  IN IF overrideValue.t # "undefined"
       THEN (IF overrideValue = Null
               THEN [dot |-> TRUE, content |-> Str(EMPTY_VALUE_LABEL)]
               ELSE [dot |-> TRUE, content |-> overrideValue])
       ELSE (IF Len(uniqueValuesArray) = 1
               THEN [dot |-> FALSE, content |-> uniqueValuesArray[1]]
               ELSE [dot |-> FALSE, content |-> Str(MULTIPLE_VALUES_LABEL)])

(***************************************************************************)
(* BulkEditRowForm.                                                        *)
(***************************************************************************)
PlaceholderText == "Type new response for selected submissions"

getPlaceholderValue(overrideData) ==
  IF overrideData = EMPTY_VALUE THEN EMPTY_VALUE_LABEL ELSE PlaceholderText

\* the value of the text box
inputValue(overrideData) ==
  IF overrideData.t = "string" THEN overrideData.v ELSE ""

\* the Map of getUniqueResponses before sorting: <<value, count>> entries in
\* insertion order
RECURSIVE CountResponses(_, _)
CountResponses(originalData, acc) ==
  IF originalData = <<>> THEN acc
  ELSE LET x == Head(originalData).value
           has == \E i \in 1..Len(acc) : acc[i][1] = x
       IN CountResponses(
            Tail(originalData),
            IF has
              THEN [i \in 1..Len(acc) |->
                      IF acc[i][1] = x THEN <<x, acc[i][2] + 1>> ELSE acc[i]]
              ELSE Append(acc, <<x, 1>>))

\* the comparator with its operands swapped
ComparePopularity_Ascending(a, b) == a[2] - b[2]

\* the comparator of the sort: negative when a goes first
ComparePopularity(a, b) == b[2] - a[2]

\* Array.prototype.sort (stable) with ComparePopularity: insertion of e into a
\* sorted list after every entry that does not go after it
RECURSIVE InsertSorted(_, _)
InsertSorted(sorted, e) ==
  IF sorted = <<>> THEN <<e>>
  ELSE IF ComparePopularity(Head(sorted), e) <= 0
         THEN <<Head(sorted)>> \o InsertSorted(Tail(sorted), e)
         ELSE <<e>> \o sorted

RECURSIVE SortEntries(_, _)
SortEntries(entries, acc) ==
  IF entries = <<>> THEN acc
  ELSE SortEntries(Tail(entries), InsertSorted(acc, Head(entries)))

getUniqueResponses(originalData) ==
  SortEntries(CountResponses(originalData, <<>>), <<>>)

\* renderResponseRow: the label shown and the value its Select button reports
renderResponseRow(entry) ==
  IF entry[1] = Undefined
    THEN [label |-> Str(EMPTY_VALUE_LABEL), value |-> EMPTY_VALUE, count |-> entry[2]]
    ELSE [label |-> entry[1], value |-> entry[1], count |-> entry[2]]

\* BulkEditRowForm.render
renderRowForm(question, overrideData) ==
  LET responses == getUniqueResponses(question.selectedData)
  IN [kind |-> "question",
      question |-> question.name,
      input |-> inputValue(overrideData),
      placeholder |-> getPlaceholderValue(overrideData),
      rows |-> [i \in 1..Len(responses) |-> renderResponseRow(responses[i])]]

\* renderList: the Response cell of every question (no filter typed)
renderList(d, ov) ==
  LET displayData == getDisplayData(d)
  IN [kind |-> "list",
      rows |-> [i \in 1..Len(displayData) |->
                  [name |-> displayData[i].name,
                   cell |-> renderDataValues(ov, displayData[i].name,
                                             displayData[i].selectedData)]]]

(***************************************************************************)
(* BulkEditSubmissionsForm: lifecycle, handlers and callbacks.             *)
(***************************************************************************)
Mounted == pc = "mounted"
ListShown == Mounted /\ selectedQuestion = <<>>
QuestionShown == Mounted /\ selectedQuestion # <<>>
\* the footer buttons of the list are disabled while a request is pending or
\* when there is no override
FooterEnabled == ListShown /\ ~isPending /\ DOMAIN overrides # {}

ListTitle == <<"list", Len(selectedSubmissions), totalSubmissions>>
QuestionTitle(label) == <<"question", label, Len(selectedSubmissions)>>

setModalTitleToList == modalTitle' = ListTitle
setModalTitleToQuestion(label) == modalTitle' = QuestionTitle(label)

\* the subscriptions componentDidMount makes
Subscriptions == <<"completed", "failed">>
Range(seq) == {seq[i] : i \in 1..Len(seq)}

componentDidMount ==
  /\ pc = "constructed"
  /\ pc' = "mounted"
  /\ unlisteners' = unlisteners \o Subscriptions
  /\ listeners' = listeners \cup Range(Subscriptions)
  /\ setModalTitleToList
  /\ UNCHANGED <<data, formState, requestState, modalCloseCalls, view, demoState>>

\* an unmount that undoes only the first subscription
componentWillUnmount_FirstOnly ==
  /\ pc = "mounted"
  /\ pc' = "unmounted"
  /\ listeners' = listeners \ {Head(unlisteners)}
  /\ UNCHANGED <<data, formState, unlisteners, requestState, modalCloseCalls,
                 modalTitle, view, demoState>>

componentWillUnmount ==
  /\ pc = "mounted"
  /\ pc' = "unmounted"
  /\ listeners' = listeners \ Range(unlisteners)
  /\ UNCHANGED <<data, formState, unlisteners, requestState, modalCloseCalls,
                 modalTitle, view, demoState>>

\* the completed handler without its setState
onBulkPatchValuesCompleted_KeepsPending ==
  /\ modalCloseCalls' = modalCloseCalls + 1
  /\ UNCHANGED <<isPending, overrides, selectedQuestion, selectedQuestionOverride,
                 filterByName, filterByValue, callCount, lastCall>>

onBulkPatchValuesCompleted ==
  /\ isPending' = FALSE
  /\ modalCloseCalls' = modalCloseCalls + 1
  /\ UNCHANGED <<overrides, selectedQuestion, selectedQuestionOverride,
                 filterByName, filterByValue, callCount, lastCall>>

\* the failed handler written like the completed one
onBulkPatchValuesFailed_ClosesModal ==
  /\ isPending' = FALSE
  /\ modalCloseCalls' = modalCloseCalls + 1
  /\ UNCHANGED <<overrides, selectedQuestion, selectedQuestionOverride,
                 filterByName, filterByValue, callCount, lastCall>>

onBulkPatchValuesFailed ==
  /\ isPending' = FALSE
  /\ UNCHANGED <<overrides, selectedQuestion, selectedQuestionOverride,
                 filterByName, filterByValue, callCount, lastCall,
                 modalCloseCalls>>

\* the response of a request arrives: the action triggers its `completed`
\* child, which calls the handlers subscribed to it
bulkPatchValuesCompleted ==
  /\ inFlight > 0
  /\ inFlight' = inFlight - 1
  /\ IF "completed" \in listeners
       THEN onBulkPatchValuesCompleted
       ELSE UNCHANGED <<formState, callCount, lastCall, modalCloseCalls>>
  /\ UNCHANGED <<pc, data, unlisteners, listeners, modalTitle, view, demoState>>

\* the request fails: the action triggers its `failed` child
bulkPatchValuesFailed ==
  /\ inFlight > 0
  /\ inFlight' = inFlight - 1
  /\ IF "failed" \in listeners
       THEN onBulkPatchValuesFailed
       ELSE UNCHANGED <<formState, callCount, lastCall, modalCloseCalls>>
  /\ UNCHANGED <<pc, data, unlisteners, listeners, modalTitle, view, demoState>>

\* the assignment without the test for undefined
NewRowOverride_AsGiven(value) == value

\* the assignment of onRowOverrideChange
NewRowOverride(value) == IF value = Undefined THEN EMPTY_VALUE ELSE value

onRowOverrideChange(questionName, value) ==
  /\ QuestionShown
  /\ IF questionName = selectedQuestion[1].name
       THEN selectedQuestionOverride' = NewRowOverride(value)
       ELSE UNCHANGED selectedQuestionOverride
  /\ UNCHANGED <<pc, data, isPending, overrides, selectedQuestion, filterByName,
                 filterByValue, unlisteners, listeners, requestState,
                 modalCloseCalls, modalTitle, view, demoState>>

\* a call that sends one submission instead of the list
SubmitArguments_OneSubmission ==
  [uid |-> AssetUid, submissions |-> <<Head(selectedSubmissions)>>,
   overrides |-> overrides]

\* the arguments of the bulkPatchValues call of onSubmit
SubmitArguments ==
  [uid |-> AssetUid, submissions |-> selectedSubmissions, overrides |-> overrides]

onSubmit ==
  /\ FooterEnabled
  /\ callCount < MaxCalls
  /\ isPending' = TRUE
  /\ callCount' = callCount + 1
  /\ lastCall' = SubmitArguments
  /\ inFlight' = inFlight + 1
  /\ UNCHANGED <<pc, data, overrides, selectedQuestion, selectedQuestionOverride,
                 filterByName, filterByValue, unlisteners, listeners,
                 modalCloseCalls, modalTitle, view, demoState>>

onReset ==
  /\ FooterEnabled
  /\ overrides' = EmptyObject
  /\ UNCHANGED <<pc, data, isPending, selectedQuestion, selectedQuestionOverride,
                 filterByName, filterByValue, unlisteners, listeners,
                 requestState, modalCloseCalls, modalTitle, view, demoState>>

onFilterByNameChange(newFilter) ==
  /\ ListShown
  /\ filterByName' = newFilter
  /\ UNCHANGED <<pc, data, isPending, overrides, selectedQuestion,
                 selectedQuestionOverride, filterByValue, unlisteners, listeners,
                 requestState, modalCloseCalls, modalTitle, view, demoState>>

onFilterByValueChange(newFilter) ==
  /\ ListShown
  /\ filterByValue' = newFilter
  /\ UNCHANGED <<pc, data, isPending, overrides, selectedQuestion,
                 selectedQuestionOverride, filterByName, unlisteners, listeners,
                 requestState, modalCloseCalls, modalTitle, view, demoState>>

selectQuestion(question) ==
  /\ ListShown
  /\ selectedQuestion' = <<question>>
  /\ selectedQuestionOverride' = ObjectGet(overrides, question.name)
  /\ setModalTitleToQuestion(question.label)
  /\ UNCHANGED <<pc, data, isPending, overrides, filterByName, filterByValue,
                 unlisteners, listeners, requestState, modalCloseCalls, view,
                 demoState>>

\* the state change and the title change of goBackToList
BackToList ==
  /\ selectedQuestion' = <<>>
  /\ selectedQuestionOverride' = Null
  /\ setModalTitleToList

goBackToList ==
  /\ QuestionShown
  /\ BackToList
  /\ UNCHANGED <<pc, data, isPending, overrides, filterByName, filterByValue,
                 unlisteners, listeners, requestState, modalCloseCalls, view,
                 demoState>>

\* the test without the length check
IsStorable_AnyString(x) == x = EMPTY_VALUE \/ x.t = "string"

\* whether saveOverride stores the edited value (it removes the key otherwise)
IsStorable(x) == x = EMPTY_VALUE \/ (x.t = "string" /\ Len(x.v) >= 1)

\* a save that never removes a key
NewOverrides_NoDelete(ov, questionName, x) ==
  IF IsStorable(x) THEN ObjectSet(ov, questionName, x) ELSE ov

\* the map saveOverride builds from a copy of the overrides
NewOverrides(ov, questionName, x) ==
  IF IsStorable(x) THEN ObjectSet(ov, questionName, x)
  ELSE ObjectDelete(ov, questionName)

saveOverride ==
  /\ QuestionShown
  /\ overrides' = NewOverrides(overrides, selectedQuestion[1].name,
                               selectedQuestionOverride)
  /\ BackToList
  /\ UNCHANGED <<pc, data, isPending, filterByName, filterByValue, unlisteners,
                 listeners, requestState, modalCloseCalls, view, demoState>>

\* BulkEditRowForm.onChange: the text box or a Select button reports a value
RowFormOnChange(newValue) ==
  /\ QuestionShown
  /\ onRowOverrideChange(selectedQuestion[1].name, newValue)

\* the user types in the text box of the row form
TypeResponse == \E s \in TextInputs : RowFormOnChange(Str(s))

\* the user clicks Select on one of the unique responses
SelectResponse ==
  /\ QuestionShown
  /\ \E i \in 1..Len(getUniqueResponses(selectedQuestion[1].selectedData)) :
       RowFormOnChange(
         renderResponseRow(
           getUniqueResponses(selectedQuestion[1].selectedData)[i]).value)

\* render: the list, or the row form of the selected question
render ==
  /\ Mounted
  /\ view' = IF selectedQuestion = <<>>
               THEN renderList(data, overrides)
               ELSE renderRowForm(selectedQuestion[1], selectedQuestionOverride)
  /\ UNCHANGED <<pc, data, formState, unlisteners, listeners, requestState,
                 modalCloseCalls, modalTitle, demoState>>

(***************************************************************************)
(* The specification of the form's handlers.                               *)
(***************************************************************************)
Init ==
  /\ pc = "constructed"
  /\ data = SampleData
  /\ isPending = FALSE
  /\ overrides = EmptyObject
  /\ selectedQuestion = <<>>
  /\ selectedQuestionOverride = Null
  /\ filterByName = ""
  /\ filterByValue = ""
  /\ unlisteners = <<>>
  /\ listeners = {}
  /\ callCount = 0
  /\ lastCall = NoCall
  /\ inFlight = 0
  /\ modalCloseCalls = 0
  /\ modalTitle = <<>>
  /\ view = NoView
  /\ filters = <<>>
  /\ fields = <<>>

Next ==
  \/ componentDidMount
  \/ componentWillUnmount
  \/ bulkPatchValuesCompleted
  \/ bulkPatchValuesFailed
  \/ \E q \in QuestionNames, x \in ChangeValues : onRowOverrideChange(q, x)
  \/ TypeResponse
  \/ SelectResponse
  \/ onSubmit
  \/ onReset
  \/ \E f \in FilterInputs : onFilterByNameChange(f)
  \/ \E f \in FilterInputs : onFilterByValueChange(f)
  \/ \E i \in 1..Len(Survey) : selectQuestion(getDisplayData(data)[i])
  \/ goBackToList
  \/ saveOverride

Spec == Init /\ [][Next]_vars

\* a request that was sent is answered: its completed or its failed child is
\* triggered
LiveSpec ==
  Spec /\ WF_vars(bulkPatchValuesCompleted \/ bulkPatchValuesFailed)

(***************************************************************************)
(* The specification of rendering: the props and the saved overrides are   *)
(* drawn from every value they can have, and render is applied to them.    *)
(***************************************************************************)
\* the maps saveOverride can have built
SavedOverrides ==
  UNION {[S -> {EMPTY_VALUE, Str("a")}] : S \in SUBSET QuestionNames}

RenderInit ==
  /\ pc = "mounted"
  /\ data \in AllData
  /\ isPending = FALSE
  /\ overrides \in SavedOverrides
  /\ selectedQuestion = <<>>
  /\ selectedQuestionOverride = Null
  /\ filterByName = ""
  /\ filterByValue = ""
  /\ unlisteners = Subscriptions
  /\ listeners = Range(Subscriptions)
  /\ callCount = 0
  /\ lastCall = NoCall
  /\ inFlight = 0
  /\ modalCloseCalls = 0
  /\ modalTitle = ListTitle
  /\ view = NoView
  /\ filters = <<>>
  /\ fields = <<>>

RenderNext ==
  \/ render
  \/ \E i \in 1..Len(Survey) : selectQuestion(getDisplayData(data)[i])
  \/ goBackToList

RenderSpec == RenderInit /\ [][RenderNext]_vars

(***************************************************************************)
(* projectViews/constants.ts: the registry of filter conditions.  A query  *)
(* template is the sequence of its pieces, a placeholder being one piece.  *)
(***************************************************************************)
FieldPlaceholder == "<field>"
TermPlaceholder == "<term>"

FilterConditionNames ==
  {"contains", "doesNotContain", "endsWith", "is", "isEmpty", "isNot",
   "isNotEmpty", "startsWith"}

\* the isEmpty entry marked as needing a value
isEmptyCondition_RequiresValue ==
  [name |-> "isEmpty", label |-> "Is empty", requiresValue |-> TRUE,
   filterQuery |-> <<"<field>", ":\"\"">>]

isEmptyCondition ==
  [name |-> "isEmpty", label |-> "Is empty", requiresValue |-> FALSE,
   filterQuery |-> <<"<field>", ":\"\"">>]

FILTER_CONDITIONS ==
  [is |->
     [name |-> "is", label |-> "Is", requiresValue |-> TRUE,
      filterQuery |-> <<"<field>", "__iexact:", "<term>">>],
   isNot |->
     [name |-> "isNot", label |-> "Is not", requiresValue |-> TRUE,
      filterQuery |-> <<"NOT ", "<field>", "__iexact:", "<term>">>],
   contains |->
     [name |-> "contains", label |-> "Contains", requiresValue |-> TRUE,
      filterQuery |-> <<"<field>", "__icontains:", "<term>">>],
   doesNotContain |->
     [name |-> "doesNotContain", label |-> "Does not contain",
      requiresValue |-> TRUE,
      filterQuery |-> <<"NOT ", "<field>", "__icontains:", "<term>">>],
   startsWith |->
     [name |-> "startsWith", label |-> "Starts with", requiresValue |-> TRUE,
      filterQuery |-> <<"<field>", "__istartswith:", "<term>">>],
   endsWith |->
     [name |-> "endsWith", label |-> "Ends with", requiresValue |-> TRUE,
      filterQuery |-> <<"<field>", "__iendswith:", "<term>">>],
   isEmpty |-> isEmptyCondition,
   isNotEmpty |->
     [name |-> "isNotEmpty", label |-> "Is not empty", requiresValue |-> FALSE,
      filterQuery |-> <<"NOT ", "<field>", ":\"\"">>]]

\* String.prototype.includes for a placeholder of a template
HasPlaceholder(template, placeholder) ==
  \E i \in 1..Len(template) : template[i] = placeholder

DEFAULT_PROJECT_FIELDS ==
  <<"countries", "dateModified", "dateDeployed", "name", "ownerUsername",
    "status", "submissions">>

(***************************************************************************)
(* ProjectsViewTempDemo: the view that holds the filter definitions and    *)
(* the selected fields.  fields is <<>> (undefined) or <<the list>>.       *)
(***************************************************************************)
\* ProjectsFilterDefinition: every property is optional
FilterDefinitions ==
  {[fieldName |-> Str("name"), condition |-> c, value |-> Str("x")] :
     c \in {Undefined} \cup {Str(n) : n \in FilterConditionNames}}

FilterLists ==
  UNION {[1..n -> FilterDefinitions] : n \in 0..MaxFilters}

FieldSelections == {<<>>, <<DEFAULT_PROJECT_FIELDS>>, << <<"name">> >>}

onFiltersChange(newFilters) ==
  /\ filters' = newFilters
  /\ UNCHANGED <<pc, data, formState, unlisteners, listeners, requestState,
                 modalCloseCalls, modalTitle, view, fields>>

onFieldsChange(newFields) ==
  /\ fields' = newFields
  /\ UNCHANGED <<pc, data, formState, unlisteners, listeners, requestState,
                 modalCloseCalls, modalTitle, view, filters>>

DemoNext ==
  \/ \E f \in FilterLists : onFiltersChange(f)
  \/ \E f \in FieldSelections : onFieldsChange(f)

DemoSpec == Init /\ [][DemoNext]_vars

(***************************************************************************)
(* Properties.                                                             *)
(***************************************************************************)
\* a response reaches the form's handler of that name
FailedDelivered == bulkPatchValuesFailed /\ "failed" \in listeners
CompletedDelivered == bulkPatchValuesCompleted /\ "completed" \in listeners

\* C1: when bulkPatchValues fails, the form only resets isPending to false:
\* onModalClose is not called, no request is issued, and overrides,
\* selectedQuestion, selectedQuestionOverride and both filters keep their values.
C1_FailedOnlyResetsPending ==
  [][FailedDelivered =>
       /\ isPending' = FALSE
       /\ modalCloseCalls' = modalCloseCalls
       /\ callCount' = callCount
       /\ lastCall' = lastCall
       /\ inFlight' < inFlight
       /\ overrides' = overrides
       /\ selectedQuestion' = selectedQuestion
       /\ selectedQuestionOverride' = selectedQuestionOverride
       /\ filterByName' = filterByName
       /\ filterByValue' = filterByValue
       /\ pc' = pc]_vars

\* a request failed while the form was mounted: it is no longer pending, the
\* modal was never closed and the overrides are still there
C1_Witness ==
  /\ Mounted
  /\ callCount = 1
  /\ inFlight = 0
  /\ ~isPending
  /\ modalCloseCalls = 0
  /\ DOMAIN overrides # {}

\* C2: every key of the overrides map holds EMPTY_VALUE or a string of length
\* at least 1; undefined and the empty string are never stored.
C2_OverridesWellFormed ==
  \A k \in DOMAIN overrides :
    \/ overrides[k] = EMPTY_VALUE
    \/ (overrides[k].t = "string" /\ Len(overrides[k].v) >= 1)

\* one question is explicitly cleared, the other has a text override
C2_Witness ==
  /\ DOMAIN overrides = QuestionNames
  /\ \E k \in DOMAIN overrides : overrides[k] = EMPTY_VALUE
  /\ \E k \in DOMAIN overrides : overrides[k].t = "string"

\* C3: onSubmit sets isPending and issues exactly one bulkPatchValues call with
\* the asset uid, the whole selectedSubmissions list and the overrides map as it
\* stands: the keys sent are exactly the questions with a saved override.
C3_SubmitSendsOverrides ==
  [][onSubmit =>
       /\ isPending' = TRUE
       /\ callCount' = callCount + 1
       /\ inFlight' = inFlight + 1
       /\ lastCall'.uid = AssetUid
       /\ lastCall'.submissions = selectedSubmissions
       /\ Len(lastCall'.submissions) = NumSubmissions
       /\ lastCall'.overrides = overrides
       /\ DOMAIN lastCall'.overrides = DOMAIN overrides
       /\ overrides' = overrides]_vars

\* a submit has been made with overrides for both questions
C3_Witness ==
  /\ isPending
  /\ callCount = 1
  /\ inFlight = 1
  /\ lastCall.overrides = overrides
  /\ DOMAIN overrides = QuestionNames

\* C4: isPending is cleared only by the arrival of a completed or failed
\* callback; the completed callback clears it and calls onModalClose; and, the
\* response of a request being eventually delivered, a pending form that stays
\* subscribed eventually stops being pending.
C4_PendingUntilCallback ==
  /\ [][(isPending /\ ~isPending') => (CompletedDelivered \/ FailedDelivered)]_vars
  /\ [][CompletedDelivered =>
          (isPending' = FALSE /\ modalCloseCalls' = modalCloseCalls + 1)]_vars
  /\ (isPending ~> (~isPending \/ pc = "unmounted"))

\* the completed callback arrived: not pending any more, onModalClose called
C4_Witness ==
  /\ Mounted
  /\ callCount = 1
  /\ inFlight = 0
  /\ ~isPending
  /\ modalCloseCalls = 1

\* C5: after componentWillUnmount both listeners are unsubscribed, so an event
\* delivered after the unmount changes neither the form state nor calls
\* onModalClose, also when the unmount happened with a request pending.
C5_UnmountUnsubscribes ==
  /\ [](pc = "unmounted" => listeners \cap Range(Subscriptions) = {})
  /\ [][pc = "unmounted" =>
          (formState' = formState /\ modalCloseCalls' = modalCloseCalls)]_vars

\* the form was unmounted while pending and the response arrived afterwards
C5_Witness ==
  /\ pc = "unmounted"
  /\ isPending
  /\ callCount = 1
  /\ inFlight = 0

\* the conditions the filter definitions of the demo view name
ConditionsInUse ==
  {filters[i].condition.v :
     i \in {j \in 1..Len(filters) : filters[j].condition.t = "string"}}

\* C6: in FILTER_CONDITIONS requiresValue is true exactly for the conditions
\* whose template has the <term> placeholder (is, isNot, contains,
\* doesNotContain, startsWith, endsWith) and false for isEmpty and isNotEmpty;
\* every template has the <field> placeholder; every entry is stored under its
\* own name.
C6_FilterConditionsTable ==
  /\ DOMAIN FILTER_CONDITIONS = FilterConditionNames
  /\ \A n \in FilterConditionNames \cup ConditionsInUse :
       /\ n \in DOMAIN FILTER_CONDITIONS
       /\ FILTER_CONDITIONS[n].name = n
       /\ FILTER_CONDITIONS[n].requiresValue
            <=> HasPlaceholder(FILTER_CONDITIONS[n].filterQuery, TermPlaceholder)
       /\ FILTER_CONDITIONS[n].requiresValue
            <=> n \in {"is", "isNot", "contains", "doesNotContain",
                       "startsWith", "endsWith"}
       /\ ~FILTER_CONDITIONS[n].requiresValue <=> n \in {"isEmpty", "isNotEmpty"}
       /\ HasPlaceholder(FILTER_CONDITIONS[n].filterQuery, FieldPlaceholder)

\* the filter list holds a condition that needs a value and one that does not
C6_Witness ==
  /\ Len(filters) = 2
  /\ filters[1].condition.t = "string"
  /\ filters[2].condition.t = "string"
  /\ FILTER_CONDITIONS[filters[1].condition.v].requiresValue
  /\ ~FILTER_CONDITIONS[filters[2].condition.v].requiresValue

\* C7: saveOverride stores selectedQuestionOverride under the selected
\* question's name when it is EMPTY_VALUE or a string of length at least 1 and
\* removes that key otherwise; every other key keeps its value; the form goes
\* back to the list (selectedQuestion and selectedQuestionOverride become null).
C7_SaveOverride ==
  [][saveOverride =>
       LET q == selectedQuestion[1].name
           x == selectedQuestionOverride
       IN /\ IF x = EMPTY_VALUE \/ (x.t = "string" /\ Len(x.v) >= 1)
               THEN q \in DOMAIN overrides' /\ overrides'[q] = x
               ELSE q \notin DOMAIN overrides'
          /\ \A k \in QuestionNames \ {q} :
               /\ k \in DOMAIN overrides' <=> k \in DOMAIN overrides
               /\ k \in DOMAIN overrides => overrides'[k] = overrides[k]
          /\ selectedQuestion' = <<>>
          /\ selectedQuestionOverride' = Null]_vars

\* back on the list after two saves: the first override survived the second
C7_Witness ==
  /\ ListShown
  /\ DOMAIN overrides = QuestionNames
  /\ \E k \in DOMAIN overrides : overrides[k] = Str("a")

\* the user clicks Select on the "no answer" row of the unique responses
SelectNoAnswer ==
  /\ QuestionShown
  /\ \E i \in 1..Len(getUniqueResponses(selectedQuestion[1].selectedData)) :
       /\ getUniqueResponses(selectedQuestion[1].selectedData)[i][1] = Undefined
       /\ RowFormOnChange(
            renderResponseRow(
              getUniqueResponses(selectedQuestion[1].selectedData)[i]).value)

\* C8: onRowOverrideChange(questionName, value) changes only
\* selectedQuestionOverride, and only for the name of the selected question:
\* undefined is stored as EMPTY_VALUE, any other value as given; for another
\* name nothing changes.  Selecting the "no answer" row yields EMPTY_VALUE,
\* shown as the n/d placeholder with an empty input.
C8_RowOverrideChange ==
  /\ [][\A q \in QuestionNames, x \in ChangeValues :
          onRowOverrideChange(q, x) =>
            /\ IF q = selectedQuestion[1].name
                 THEN selectedQuestionOverride' =
                        (IF x = Undefined THEN EMPTY_VALUE ELSE x)
                 ELSE selectedQuestionOverride' = selectedQuestionOverride
            /\ overrides' = overrides
            /\ selectedQuestion' = selectedQuestion
            /\ isPending' = isPending
            /\ filterByName' = filterByName
            /\ filterByValue' = filterByValue
            /\ UNCHANGED <<requestState, modalCloseCalls, modalTitle>>]_vars
  /\ [][SelectNoAnswer =>
          /\ selectedQuestionOverride' = EMPTY_VALUE
          /\ getPlaceholderValue(selectedQuestionOverride') = EMPTY_VALUE_LABEL
          /\ inputValue(selectedQuestionOverride') = ""]_vars

\* "no answer" is the edited value of a question that has no saved override
C8_Witness ==
  /\ QuestionShown
  /\ selectedQuestionOverride = EMPTY_VALUE
  /\ selectedQuestion[1].name \notin DOMAIN overrides
  /\ \E i \in 1..Len(selectedQuestion[1].selectedData) :
       selectedQuestion[1].selectedData[i].value = Undefined

\* what C9 says the Response cell of question `name` with rows `rowData` shows
ExpectedCell(name, rowData) ==
  IF name \in DOMAIN overrides
    THEN (IF overrides[name] = EMPTY_VALUE THEN Str(EMPTY_VALUE_LABEL)
          ELSE overrides[name])
    ELSE IF \A i, j \in 1..Len(rowData) : rowData[i].value = rowData[j].value
           THEN (IF rowData[1].value = Undefined THEN Str(EMPTY_VALUE_LABEL)
                 ELSE rowData[1].value)
           ELSE Str(MULTIPLE_VALUES_LABEL)

\* C9: renderDataValues shows the override of the question when there is one
\* (the n/d label for the "no answer" override); otherwise the common value of
\* the rows when all rows have the same value (the n/d label for a missing
\* value), and the "Multiple responses" label otherwise.
C9_DataValuesCell ==
  view.kind = "list" =>
    \A i \in 1..Len(view.rows) :
      view.rows[i].cell.content =
        ExpectedCell(view.rows[i].name, getDisplayData(data)[i].selectedData)

RECURSIVE SumCounts(_)
SumCounts(entries) ==
  IF entries = <<>> THEN 0 ELSE Head(entries)[2] + SumCounts(Tail(entries))

Occurrences(originalData, x) ==
  Cardinality({i \in 1..Len(originalData) : originalData[i].value = x})

\* what C10 says of the unique responses `r` of `originalData`
UniqueResponsesOf(r, originalData) ==
  /\ \A i, j \in 1..Len(r) : r[i][1] = r[j][1] => i = j
  /\ {r[i][1] : i \in 1..Len(r)} =
       {originalData[i].value : i \in 1..Len(originalData)}
  /\ \A i \in 1..Len(r) : r[i][2] = Occurrences(originalData, r[i][1])
  /\ SumCounts(r) = Len(originalData)
  /\ \A i, j \in 1..Len(r) : i < j => r[i][2] >= r[j][2]

\* C10: getUniqueResponses has one entry per distinct value of originalData (a
\* missing value is an entry of its own), each with the number of its
\* occurrences, so the counts sum to originalData.length; the entries are in
\* non-increasing order of count.
C10_UniqueResponses ==
  /\ QuestionShown =>
       UniqueResponsesOf(getUniqueResponses(selectedQuestion[1].selectedData),
                         selectedQuestion[1].selectedData)
  /\ (QuestionShown /\ view.kind = "question"
        /\ view.question = selectedQuestion[1].name) =>
       /\ Len(view.rows) =
            Cardinality({selectedQuestion[1].selectedData[i].value :
                           i \in 1..Len(selectedQuestion[1].selectedData)})
       /\ \A i, j \in 1..Len(view.rows) :
            i < j => view.rows[i].count >= view.rows[j].count

\* the row form of a question is rendered whose most frequent response was
\* not the first one met, and one of whose responses is missing
C10_Witness ==
  /\ QuestionShown
  /\ view.kind = "question"
  /\ view.question = selectedQuestion[1].name
  /\ getUniqueResponses(selectedQuestion[1].selectedData) #
       CountResponses(selectedQuestion[1].selectedData, <<>>)
  /\ \E i \in 1..Len(view.rows) : view.rows[i].value = EMPTY_VALUE

====
